---- MODULE Spec2Model ----
(***************************************************************************)
(* Subscription service: HTTP handler -> SubscriptionService ->            *)
(* SubscriptionRepository (gorm over PostgreSQL).                          *)
(*                                                                         *)
(* The store is the subscriptions table, a partial function from primary   *)
(* key to row.  Every request is one action, except PUT /subscriptions/:id *)
(* whose service method issues two store calls (GetByID, then Save) with   *)
(* no transaction around them: it is split at the point between the two    *)
(* calls, where requests of other clients may run.                         *)
(***************************************************************************)
EXTENDS Integers, Sequences, FiniteSets, TLC

VARIABLES store, issued, upd, resp, served

vars == <<store, issued, upd, resp, served>>

(***************************************************************************)
(* Bounds and input sets                                                   *)
(***************************************************************************)
\* primary keys that uuid.New() can draw
MaxSubs == 2

\* PUT requests that can be between their two store calls at once
MaxClients == 2

\* requests served in one behaviour
MaxRequests == 3

Clients == 1 .. MaxClients

UuidNil == 0

SubIDs == 1 .. MaxSubs

UserIDs == {11, 12}

ServiceNames == {"Netflix", "Spotify"}

T0725 == <<"0", "7", "-", "2", "0", "2", "5">>

T0925 == <<"0", "9", "-", "2", "0", "2", "5">>

T1025 == <<"1", "0", "-", "2", "0", "2", "5">>

TBad == <<"1", "3", "-", "2", "0", "2", "5">>

BadIdText == <<"abc">>

IdText(u) == <<"uuid", u>>

IdTexts == {IdText(i) : i \in SubIDs} \cup {BadIdText}

(***************************************************************************)
(* time.Time, restricted to what the service uses                          *)
(***************************************************************************)
IsLeap(y) == (y % 4 = 0 /\ y % 100 # 0) \/ y % 400 = 0

DaysIn(y, m) ==
  IF m = 2 THEN (IF IsLeap(y) THEN 29 ELSE 28)
  ELSE IF m \in {4, 6, 9, 11} THEN 30 ELSE 31

\* time.Date(year, month, day, hour, min, sec, 0, time.UTC): normalises a
\* month of 13 into January of the next year and a day of 0 into the last
\* day of the preceding month.
Date(year, month, day, hour, min, sec) ==
  LET y1 == IF month > 12 THEN year + 1 ELSE year
      m1 == IF month > 12 THEN month - 12 ELSE month
      y2 == IF day = 0 /\ m1 = 1 THEN y1 - 1 ELSE y1
      m2 == IF day = 0 THEN (IF m1 = 1 THEN 12 ELSE m1 - 1) ELSE m1
      d2 == IF day = 0 THEN DaysIn(y2, m2) ELSE day
  IN [year |-> y2, month |-> m2, day |-> d2, hour |-> hour, min |-> min, sec |-> sec]

SecOfDay(t) == t.hour * 3600 + t.min * 60 + t.sec

\* time.Time.Before
Before(t, u) ==
  \/ t.year < u.year
  \/ t.year = u.year /\ t.month < u.month
  \/ t.year = u.year /\ t.month = u.month /\ t.day < u.day
  \/ t.year = u.year /\ t.month = u.month /\ t.day = u.day /\ SecOfDay(t) < SecOfDay(u)

\* SQL "a <= b" on timestamps
TimeLeq(t, u) == ~Before(u, t)

Digits == {"0", "1", "2", "3", "4", "5", "6", "7", "8", "9"}

DigitVal(c) ==
  CASE c = "0" -> 0 [] c = "1" -> 1 [] c = "2" -> 2 [] c = "3" -> 3 [] c = "4" -> 4
    [] c = "5" -> 5 [] c = "6" -> 6 [] c = "7" -> 7 [] c = "8" -> 8 [] c = "9" -> 9

ZeroTime == [year |-> 1, month |-> 1, day |-> 1, hour |-> 0, min |-> 0, sec |-> 0]

\* time.Parse("01-2006", dateStr): two-digit month 01..12, "-", four-digit
\* year; the result is the first day of that month at 00:00:00 UTC.
parseMonthYear(dateStr) ==
  IF /\ Len(dateStr) = 7
     /\ dateStr[1] \in Digits /\ dateStr[2] \in Digits
     /\ dateStr[3] = "-"
     /\ \A i \in 4 .. 7 : dateStr[i] \in Digits
     /\ DigitVal(dateStr[1]) * 10 + DigitVal(dateStr[2]) \in 1 .. 12
  THEN [err |-> "nil",
        t |-> Date(DigitVal(dateStr[4]) * 1000 + DigitVal(dateStr[5]) * 100
                     + DigitVal(dateStr[6]) * 10 + DigitVal(dateStr[7]),
                   DigitVal(dateStr[1]) * 10 + DigitVal(dateStr[2]), 1, 0, 0, 0)]
  ELSE [err |-> "InvalidDate", t |-> ZeroTime]

\* uuid.Parse on a path or query parameter
uuidParse(s) ==
  IF Len(s) = 2 /\ s[1] = "uuid"
  THEN [err |-> "nil", id |-> s[2]]
  ELSE [err |-> "invalid UUID", id |-> UuidNil]

(***************************************************************************)
(* models.Subscription and the subscriptions table                         *)
(***************************************************************************)
\* A *time.Time is the empty sequence (nil) or a one-element sequence.
Nil == <<>>

Ptr(v) == <<v>>

Subscription(id, serviceName, price, userID, startDate, endDate) ==
  [ID |-> id, ServiceName |-> serviceName, Price |-> price, UserID |-> userID,
   StartDate |-> startDate, EndDate |-> endDate]

Rows(st) == {st[i] : i \in DOMAIN st}

RECURSIVE SumPrice(_)
SumPrice(S) ==
  IF S = {} THEN 0
  ELSE LET r == CHOOSE x \in S : TRUE IN r.Price + SumPrice(S \ {r})

(***************************************************************************)
(* SubscriptionRepository: each method is one gorm call.  dbErr is the     *)
(* gateway failing (connection lost, statement rejected): the call returns *)
(* an error and the table is untouched.                                    *)
(***************************************************************************)
\* db.Create(sub): INSERT, refused when the primary key is already in the
\* table
RepositoryCreate(st, sub, dbErr) ==
  IF dbErr \/ sub.ID \in DOMAIN st THEN [err |-> "PersistenceError", store |-> st]
  ELSE [err |-> "nil",
        store |-> [i \in DOMAIN st \cup {sub.ID} |-> IF i = sub.ID THEN sub ELSE st[i]]]

\* db.First(&sub) without the condition on id: the row of the lowest key
RepositoryGetByID_NoCondition(st, id, dbErr) ==
  IF dbErr THEN [err |-> "PersistenceError", sub |-> Nil]
  ELSE IF DOMAIN st # {}
  THEN [err |-> "nil", sub |-> Ptr(st[CHOOSE i \in DOMAIN st : \A j \in DOMAIN st : i <= j])]
  ELSE [err |-> "NotFound", sub |-> Nil]

\* db.First(&sub, "id = ?", id): gorm.ErrRecordNotFound when no row matches
RepositoryGetByID(st, id, dbErr) ==
  IF dbErr THEN [err |-> "PersistenceError", sub |-> Nil]
  ELSE IF id \in DOMAIN st THEN [err |-> "nil", sub |-> Ptr(st[id])]
  ELSE [err |-> "NotFound", sub |-> Nil]

\* db.Updates(sub): only the non-zero fields are written, so a nil end date
\* leaves the column as it was, and a missing row is not inserted.
RepositoryUpdate_Updates(st, sub, dbErr) ==
  IF dbErr THEN [err |-> "PersistenceError", store |-> st]
  ELSE [err |-> "nil",
        store |-> [i \in DOMAIN st |->
                     IF i # sub.ID THEN st[i]
                     ELSE IF sub.EndDate = Nil THEN [sub EXCEPT !.EndDate = st[i].EndDate]
                     ELSE sub]]

\* an UPDATE built on the model without the condition on id: every row
\* takes the columns of sub other than the key
RepositoryUpdate_NoCondition(st, sub, dbErr) ==
  IF dbErr THEN [err |-> "PersistenceError", store |-> st]
  ELSE [err |-> "nil",
        store |-> [i \in DOMAIN st \cup {sub.ID} |-> [sub EXCEPT !.ID = i]]]

\* db.Save(sub) with a non-zero primary key: UPDATE of every column WHERE
\* id = sub.ID and, when that touches no row, INSERT ... ON CONFLICT DO
\* UPDATE: the row is written whether or not it still exists.
RepositoryUpdate(st, sub, dbErr) ==
  IF dbErr THEN [err |-> "PersistenceError", store |-> st]
  ELSE [err |-> "nil",
        store |-> [i \in DOMAIN st \cup {sub.ID} |-> IF i = sub.ID THEN sub ELSE st[i]]]

\* db.Delete(&models.Subscription{}, "id = ?", id): DELETE ... WHERE id = ?;
\* deleting zero rows is not an error.
RepositoryDelete(st, id, dbErr) ==
  IF dbErr THEN [err |-> "PersistenceError", store |-> st]
  ELSE [err |-> "nil", store |-> [i \in DOMAIN st \ {id} |-> st[i]]]

\* List that builds its query without the user_id condition
RepositoryList_NoUserFilter(st, userID, serviceName, dbErr) ==
  IF dbErr THEN [err |-> "PersistenceError", subs |-> {}]
  ELSE [err |-> "nil",
        subs |-> {r \in Rows(st) : serviceName # "" => r.ServiceName = serviceName}]

\* WHERE user_id = ? (unless uuid.Nil) AND service_name = ? (unless "")
RepositoryList(st, userID, serviceName, dbErr) ==
  IF dbErr THEN [err |-> "PersistenceError", subs |-> {}]
  ELSE [err |-> "nil",
        subs |-> {r \in Rows(st) :
                    /\ (userID # UuidNil => r.UserID = userID)
                    /\ (serviceName # "" => r.ServiceName = serviceName)}]

\* SELECT COALESCE(SUM(price), 0) WHERE start_date <= end
\*   AND (end_date >= start OR end_date IS NULL) [AND user_id = ?]
\*   [AND service_name = ?]; the filters are pointers, nil when absent.
RepositoryAggregate(st, start, end, userID, serviceName, dbErr) ==
  IF dbErr THEN [err |-> "PersistenceError", total |-> 0]
  ELSE [err |-> "nil",
        total |-> SumPrice({r \in Rows(st) :
                    /\ TimeLeq(r.StartDate, end)
                    /\ (r.EndDate = Nil \/ TimeLeq(start, r.EndDate[1]))
                    /\ (userID # Nil => r.UserID = userID[1])
                    /\ (serviceName # Nil => r.ServiceName = serviceName[1])})]

(***************************************************************************)
(* SubscriptionService                                                     *)
(***************************************************************************)
\* uuid.New() from a generator that can return a value again
uuidNew_Repeats(used) == SubIDs

\* uuid.New(): a random UUID, none of those drawn and stored before
uuidNew(used) == SubIDs \ used

\* Create that stores the end date as the last instant of its month, the
\* way Aggregate widens its window
CreateDates_EndOfMonth(startDateStr, endDateStr) ==
  LET sd == parseMonthYear(startDateStr)
      ed == parseMonthYear(endDateStr)
  IN IF sd.err # "nil" THEN [err |-> "InvalidDate", startDate |-> ZeroTime, endDate |-> Nil]
     ELSE IF endDateStr = <<>> THEN [err |-> "nil", startDate |-> sd.t, endDate |-> Nil]
     ELSE IF ed.err # "nil" THEN [err |-> "InvalidDate", startDate |-> ZeroTime, endDate |-> Nil]
     ELSE IF Before(ed.t, sd.t)
     THEN [err |-> "InvalidDateRange", startDate |-> ZeroTime, endDate |-> Nil]
     ELSE [err |-> "nil", startDate |-> sd.t,
           endDate |-> Ptr(Date(ed.t.year, ed.t.month + 1, 0, 23, 59, 59))]

\* Create with an end date that must come strictly after the start date
CreateDates_StrictlyAfter(startDateStr, endDateStr) ==
  LET sd == parseMonthYear(startDateStr)
      ed == parseMonthYear(endDateStr)
  IN IF sd.err # "nil" THEN [err |-> "InvalidDate", startDate |-> ZeroTime, endDate |-> Nil]
     ELSE IF endDateStr = <<>> THEN [err |-> "nil", startDate |-> sd.t, endDate |-> Nil]
     ELSE IF ed.err # "nil" THEN [err |-> "InvalidDate", startDate |-> ZeroTime, endDate |-> Nil]
     ELSE IF ~Before(sd.t, ed.t)
     THEN [err |-> "InvalidDateRange", startDate |-> ZeroTime, endDate |-> Nil]
     ELSE [err |-> "nil", startDate |-> sd.t, endDate |-> Ptr(ed.t)]

\* Create: the start date is parsed, the end date is parsed when its text
\* is not empty and rejected when it is before the start date.
CreateDates(startDateStr, endDateStr) ==
  LET sd == parseMonthYear(startDateStr)
      ed == parseMonthYear(endDateStr)
  IN IF sd.err # "nil" THEN [err |-> "InvalidDate", startDate |-> ZeroTime, endDate |-> Nil]
     ELSE IF endDateStr = <<>> THEN [err |-> "nil", startDate |-> sd.t, endDate |-> Nil]
     ELSE IF ed.err # "nil" THEN [err |-> "InvalidDate", startDate |-> ZeroTime, endDate |-> Nil]
     ELSE IF Before(ed.t, sd.t)
     THEN [err |-> "InvalidDateRange", startDate |-> ZeroTime, endDate |-> Nil]
     ELSE [err |-> "nil", startDate |-> sd.t, endDate |-> Ptr(ed.t)]

\* Create that inserts the row before it compares the two dates
ServiceCreate_InsertBeforeRangeCheck(st, subID, serviceName, price, userID, startDateStr, endDateStr, dbErr) ==
  LET sd == parseMonthYear(startDateStr)
      ed == parseMonthYear(endDateStr)
      sub == Subscription(subID, serviceName, price, userID, sd.t,
                          IF endDateStr = <<>> THEN Nil ELSE Ptr(ed.t))
      r == RepositoryCreate(st, sub, dbErr)
  IN IF sd.err # "nil" \/ (endDateStr # <<>> /\ ed.err # "nil")
     THEN [err |-> "InvalidDate", sub |-> Nil, store |-> st]
     ELSE IF r.err # "nil" THEN [err |-> r.err, sub |-> Nil, store |-> st]
     ELSE IF endDateStr # <<>> /\ Before(ed.t, sd.t)
     THEN [err |-> "InvalidDateRange", sub |-> Nil, store |-> r.store]
     ELSE [err |-> "nil", sub |-> Ptr(sub), store |-> r.store]

\* Create: dates, uuid.New() (subID), repo.Create
ServiceCreate(st, subID, serviceName, price, userID, startDateStr, endDateStr, dbErr) ==
  LET d == CreateDates(startDateStr, endDateStr)
  IN IF d.err # "nil" THEN [err |-> d.err, sub |-> Nil, store |-> st]
     ELSE LET sub == Subscription(subID, serviceName, price, userID, d.startDate, d.endDate)
              r == RepositoryCreate(st, sub, dbErr)
          IN IF r.err # "nil" THEN [err |-> r.err, sub |-> Nil, store |-> st]
             ELSE [err |-> "nil", sub |-> Ptr(sub), store |-> r.store]

ServiceGetByID(st, id, dbErr) == RepositoryGetByID(st, id, dbErr)

\* Update where a price of zero is taken as a new price
UpdateFields_ZeroPrice(sub, serviceName, price, startDateStr) ==
  LET sub1 == IF serviceName # "" THEN [sub EXCEPT !.ServiceName = serviceName] ELSE sub
      sub2 == IF price >= 0 THEN [sub1 EXCEPT !.Price = price] ELSE sub1
      sd == parseMonthYear(startDateStr)
  IN IF startDateStr = <<>> THEN [err |-> "nil", sub |-> sub2]
     ELSE IF sd.err # "nil" THEN [err |-> "InvalidDate", sub |-> sub]
     ELSE [err |-> "nil", sub |-> [sub2 EXCEPT !.StartDate = sd.t]]

\* Update: service_name, price and start_date of the loaded entity are
\* replaced when the request carries them.
UpdateFields(sub, serviceName, price, startDateStr) ==
  LET sub1 == IF serviceName # "" THEN [sub EXCEPT !.ServiceName = serviceName] ELSE sub
      sub2 == IF price > 0 THEN [sub1 EXCEPT !.Price = price] ELSE sub1
      sd == parseMonthYear(startDateStr)
  IN IF startDateStr = <<>> THEN [err |-> "nil", sub |-> sub2]
     ELSE IF sd.err # "nil" THEN [err |-> "InvalidDate", sub |-> sub]
     ELSE [err |-> "nil", sub |-> [sub2 EXCEPT !.StartDate = sd.t]]

\* Update without the order check on the new end date
UpdateEndDate_NoRangeCheck(sub, endDateStr) ==
  LET ed == parseMonthYear(endDateStr)
  IN IF endDateStr = <<>> THEN [err |-> "nil", sub |-> [sub EXCEPT !.EndDate = Nil]]
     ELSE IF ed.err # "nil" THEN [err |-> "InvalidDate", sub |-> sub]
     ELSE [err |-> "nil", sub |-> [sub EXCEPT !.EndDate = Ptr(ed.t)]]

\* Update where an empty end-date text means "no change"
UpdateEndDate_KeepOnEmpty(sub, endDateStr) ==
  LET ed == parseMonthYear(endDateStr)
  IN IF endDateStr = <<>> THEN [err |-> "nil", sub |-> sub]
     ELSE IF ed.err # "nil" THEN [err |-> "InvalidDate", sub |-> sub]
     ELSE IF Before(ed.t, sub.StartDate) THEN [err |-> "InvalidDateRange", sub |-> sub]
     ELSE [err |-> "nil", sub |-> [sub EXCEPT !.EndDate = Ptr(ed.t)]]

\* Update: the end date is set from a non-empty text, after the order check
\* against the entity's start date as it now stands, and cleared otherwise.
UpdateEndDate(sub, endDateStr) ==
  LET ed == parseMonthYear(endDateStr)
  IN IF endDateStr = <<>> THEN [err |-> "nil", sub |-> [sub EXCEPT !.EndDate = Nil]]
     ELSE IF ed.err # "nil" THEN [err |-> "InvalidDate", sub |-> sub]
     ELSE IF Before(ed.t, sub.StartDate) THEN [err |-> "InvalidDateRange", sub |-> sub]
     ELSE [err |-> "nil", sub |-> [sub EXCEPT !.EndDate = Ptr(ed.t)]]

\* Update that checks the new end date against the start date it loaded
ServiceUpdateLoad_EndFirst(st, id, serviceName, price, startDateStr, endDateStr, dbErr) ==
  LET g == RepositoryGetByID(st, id, dbErr)
  IN IF g.err # "nil" THEN [err |-> g.err, sub |-> Nil]
     ELSE LET x == UpdateEndDate(g.sub[1], endDateStr)
              f == UpdateFields(x.sub, serviceName, price, startDateStr)
          IN IF f.err # "nil" THEN [err |-> f.err, sub |-> Nil]
             ELSE IF x.err # "nil" THEN [err |-> x.err, sub |-> Nil]
             ELSE [err |-> "nil", sub |-> Ptr(f.sub)]

\* Update, first half: repo.GetByID and the in-memory mutation of the
\* loaded entity, up to the call of repo.Update.
ServiceUpdateLoad(st, id, serviceName, price, startDateStr, endDateStr, dbErr) ==
  LET g == RepositoryGetByID(st, id, dbErr)
  IN IF g.err # "nil" THEN [err |-> g.err, sub |-> Nil]
     ELSE LET f == UpdateFields(g.sub[1], serviceName, price, startDateStr)
              x == UpdateEndDate(f.sub, endDateStr)
          IN IF f.err # "nil" THEN [err |-> f.err, sub |-> Nil]
             ELSE IF x.err # "nil" THEN [err |-> x.err, sub |-> Nil]
             ELSE [err |-> "nil", sub |-> Ptr(x.sub)]

\* Update, second half: repo.Update(sub) and the return
ServiceUpdateSave(st, sub, dbErr) ==
  LET r == RepositoryUpdate(st, sub, dbErr)
  IN IF r.err # "nil" THEN [err |-> r.err, sub |-> Nil, store |-> st]
     ELSE [err |-> "nil", sub |-> Ptr(sub), store |-> r.store]

ServiceDelete(st, id, dbErr) == RepositoryDelete(st, id, dbErr)

ServiceList(st, userID, serviceName, dbErr) == RepositoryList(st, userID, serviceName, dbErr)

\* Aggregate that refuses a window whose end month is before its start
\* month, as Create and Update do
ServiceAggregate_OrderChecked(st, startDateStr, endDateStr, userID, serviceName, dbErr) ==
  LET sd == parseMonthYear(startDateStr)
      ed == parseMonthYear(endDateStr)
  IN IF sd.err # "nil" THEN [err |-> "InvalidDate", total |-> 0]
     ELSE IF ed.err # "nil" THEN [err |-> "InvalidDate", total |-> 0]
     ELSE IF Before(ed.t, sd.t) THEN [err |-> "InvalidDateRange", total |-> 0]
     ELSE LET startPeriod == Date(sd.t.year, sd.t.month, 1, 0, 0, 0)
              endPeriod == Date(ed.t.year, ed.t.month + 1, 0, 23, 59, 59)
          IN RepositoryAggregate(st, startPeriod, endPeriod, userID, serviceName, dbErr)

\* Aggregate whose window ends on the last day of the month before the end month
ServiceAggregate_MonthNotAdvanced(st, startDateStr, endDateStr, userID, serviceName, dbErr) ==
  LET sd == parseMonthYear(startDateStr)
      ed == parseMonthYear(endDateStr)
  IN IF sd.err # "nil" THEN [err |-> "InvalidDate", total |-> 0]
     ELSE IF ed.err # "nil" THEN [err |-> "InvalidDate", total |-> 0]
     ELSE LET startPeriod == Date(sd.t.year, sd.t.month, 1, 0, 0, 0)
              endPeriod == Date(ed.t.year, ed.t.month, 0, 23, 59, 59)
          IN RepositoryAggregate(st, startPeriod, endPeriod, userID, serviceName, dbErr)

\* Aggregate: the window is [first instant of the start month, 23:59:59 of
\* the last day of the end month], UTC.
ServiceAggregate(st, startDateStr, endDateStr, userID, serviceName, dbErr) ==
  LET sd == parseMonthYear(startDateStr)
      ed == parseMonthYear(endDateStr)
  IN IF sd.err # "nil" THEN [err |-> "InvalidDate", total |-> 0]
     ELSE IF ed.err # "nil" THEN [err |-> "InvalidDate", total |-> 0]
     ELSE LET startPeriod == Date(sd.t.year, sd.t.month, 1, 0, 0, 0)
              endPeriod == Date(ed.t.year, ed.t.month + 1, 0, 23, 59, 59)
          IN RepositoryAggregate(st, startPeriod, endPeriod, userID, serviceName, dbErr)

(***************************************************************************)
(* SubscriptionHandler: one action per request; q is the bound request     *)
(* (path parameter, query or JSON body).  resp is the response sent by the *)
(* handler that has just returned, with the request it answers, until the  *)
(* server has written it out (Respond); served is the number of requests   *)
(* accepted so far.                                                        *)
(***************************************************************************)
Response(op, req, status, err, sub, subs, total) ==
  [op |-> op, req |-> req, status |-> status, err |-> err,
   sub |-> sub, subs |-> subs, total |-> total]

NoResponse == Response("none", Nil, 0, "nil", Nil, {}, 0)

EmptyStore == [i \in {} |-> Nil]

Init ==
  /\ store = EmptyStore
  /\ issued = {}
  /\ upd = [c \in Clients |-> Nil]
  /\ resp = NoResponse
  /\ served = 0

Accept ==
  /\ resp = NoResponse
  /\ served < MaxRequests
  /\ served' = served + 1

\* the POST /subscriptions body bound with price only "required"
bindCreate_PriceRequired(q) ==
  /\ q.ServiceName # ""
  /\ q.Price # 0
  /\ q.UserID # UuidNil
  /\ q.StartDate # <<>>

\* binding:"required" / "required,gt=0" of the POST /subscriptions body
bindCreate(q) ==
  /\ q.ServiceName # ""
  /\ q.Price # 0 /\ q.Price > 0
  /\ q.UserID # UuidNil
  /\ q.StartDate # <<>>

\* binding:"required" of the POST /subscriptions/aggregate body
bindAggregate(q) == q.StartDate # <<>> /\ q.EndDate # <<>>

\* POST /subscriptions.  issued holds the primary keys inserted so far:
\* uuid.New() returns none of them.
Create(q, dbErr) ==
  /\ Accept
  /\ IF ~bindCreate(q)
     THEN /\ resp' = Response("Create", q, 400, "BindError", Nil, {}, 0)
          /\ UNCHANGED <<store, issued, upd>>
     ELSE \E subID \in uuidNew(issued) :
            LET r == ServiceCreate(store, subID, q.ServiceName, q.Price, q.UserID,
                                   q.StartDate, q.EndDate, dbErr)
            IN /\ store' = r.store
               /\ issued' = IF r.err # "nil" THEN issued ELSE issued \cup {subID}
               /\ resp' = IF r.err # "nil"
                          THEN Response("Create", q, 400, r.err, Nil, {}, 0)
                          ELSE Response("Create", q, 201, "nil", r.sub, {}, 0)
               /\ UNCHANGED upd

\* GET /subscriptions/:id
GetByID(q, dbErr) ==
  /\ Accept
  /\ LET p == uuidParse(q.ID)
         r == ServiceGetByID(store, p.id, dbErr)
     IN resp' = IF p.err # "nil" THEN Response("GetByID", q, 400, "BadID", Nil, {}, 0)
                ELSE IF r.err = "NotFound" THEN Response("GetByID", q, 404, r.err, Nil, {}, 0)
                ELSE IF r.err # "nil" THEN Response("GetByID", q, 500, r.err, Nil, {}, 0)
                ELSE Response("GetByID", q, 200, "nil", r.sub, {}, 0)
  /\ UNCHANGED <<store, issued, upd>>

\* PUT /subscriptions/:id, up to the call of repo.Update.  The request takes
\* the first free slot of upd, where it keeps its body and the entity it is
\* about to save.
UpdateLoad(c, q, dbErr) ==
  /\ Accept
  /\ upd[c] = Nil
  /\ \A d \in Clients : d < c => upd[d] # Nil
  /\ LET p == uuidParse(q.ID)
         r == ServiceUpdateLoad(store, p.id, q.ServiceName, q.Price,
                                q.StartDate, q.EndDate, dbErr)
     IN IF p.err # "nil"
        THEN /\ resp' = Response("Update", q, 400, "BadID", Nil, {}, 0)
             /\ UNCHANGED upd
        ELSE IF r.err # "nil"
        THEN /\ resp' = Response("Update", q, 400, r.err, Nil, {}, 0)
             /\ UNCHANGED upd
        ELSE /\ upd' = [upd EXCEPT ![c] = Ptr([req |-> q, sub |-> r.sub[1]])]
             /\ resp' = NoResponse
  /\ UNCHANGED <<store, issued>>

\* PUT /subscriptions/:id, from the call of repo.Update to the response
UpdateSave(c, dbErr) ==
  /\ resp = NoResponse
  /\ upd[c] # Nil
  /\ LET q == upd[c][1].req
         r == ServiceUpdateSave(store, upd[c][1].sub, dbErr)
     IN /\ store' = r.store
        /\ resp' = IF r.err # "nil" THEN Response("Update", q, 400, r.err, Nil, {}, 0)
                   ELSE Response("Update", q, 200, "nil", r.sub, {}, 0)
  /\ upd' = [upd EXCEPT ![c] = Nil]
  /\ UNCHANGED <<issued, served>>

\* DELETE /subscriptions/:id that goes on with the zero UUID when the id
\* does not parse, as List does with user_id
Delete_ParseErrorIgnored(q, dbErr) ==
  /\ Accept
  /\ LET p == uuidParse(q.ID)
         r == ServiceDelete(store, p.id, dbErr)
     IN /\ store' = r.store
        /\ resp' = IF r.err = "NotFound"
                   THEN Response("Delete", q, 404, r.err, Nil, {}, 0)
                   ELSE IF r.err # "nil"
                   THEN Response("Delete", q, 500, r.err, Nil, {}, 0)
                   ELSE Response("Delete", q, 204, "nil", Nil, {}, 0)
  /\ UNCHANGED <<issued, upd>>

\* DELETE /subscriptions/:id
Delete(q, dbErr) ==
  /\ Accept
  /\ LET p == uuidParse(q.ID)
         r == ServiceDelete(store, p.id, dbErr)
     IN IF p.err # "nil"
        THEN /\ resp' = Response("Delete", q, 400, "BadID", Nil, {}, 0)
             /\ UNCHANGED store
        ELSE /\ store' = r.store
             /\ resp' = IF r.err = "NotFound"
                        THEN Response("Delete", q, 404, r.err, Nil, {}, 0)
                        ELSE IF r.err # "nil"
                        THEN Response("Delete", q, 500, r.err, Nil, {}, 0)
                        ELSE Response("Delete", q, 204, "nil", Nil, {}, 0)
  /\ UNCHANGED <<issued, upd>>

\* GET /subscriptions that refuses a user_id that does not parse, as the
\* handlers of /subscriptions/:id refuse their id
List_BadUserRejected(q, dbErr) ==
  /\ Accept
  /\ LET p == uuidParse(q.UserID)
         r == ServiceList(store, p.id, q.ServiceName, dbErr)
     IN resp' = IF p.err # "nil" /\ q.UserID # <<>>
                THEN Response("List", q, 400, "BadID", Nil, {}, 0)
                ELSE IF r.err # "nil" THEN Response("List", q, 500, r.err, Nil, {}, 0)
                ELSE Response("List", q, 200, "nil", Nil, r.subs, 0)
  /\ UNCHANGED <<store, issued, upd>>

\* GET /subscriptions?user_id=&service_name= : a user_id that does not parse
\* is logged and the zero UUID is passed on.
List(q, dbErr) ==
  /\ Accept
  /\ LET p == uuidParse(q.UserID)
         r == ServiceList(store, p.id, q.ServiceName, dbErr)
     IN resp' = IF r.err # "nil" THEN Response("List", q, 500, r.err, Nil, {}, 0)
                ELSE Response("List", q, 200, "nil", Nil, r.subs, 0)
  /\ UNCHANGED <<store, issued, upd>>

\* POST /subscriptions/aggregate
Aggregate(q, dbErr) ==
  /\ Accept
  /\ LET r == ServiceAggregate(store, q.StartDate, q.EndDate, q.UserID,
                               q.ServiceName, dbErr)
     IN resp' = IF ~bindAggregate(q)
                THEN Response("Aggregate", q, 400, "BindError", Nil, {}, 0)
                ELSE IF r.err # "nil"
                THEN Response("Aggregate", q, 500, r.err, Nil, {}, 0)
                ELSE Response("Aggregate", q, 200, "nil", Nil, {}, r.total)
  /\ UNCHANGED <<store, issued, upd>>

\* the response leaves the server
Respond ==
  /\ resp # NoResponse
  /\ resp' = NoResponse
  /\ UNCHANGED <<store, issued, upd, served>>

(***************************************************************************)
(* Requests                                                                *)
(***************************************************************************)
CreateRequests ==
  [ServiceName : {"Netflix"}, Price : {1000}, UserID : {11},
   StartDate : {T0725, T1025}, EndDate : {T0725, T1025}]
  \cup [ServiceName : {"Spotify"}, Price : {500}, UserID : UserIDs,
        StartDate : {T0925}, EndDate : {<<>>}]
  \cup [ServiceName : {"Netflix"}, Price : {1000, 0}, UserID : {11},
        StartDate : {T0725, TBad}, EndDate : {TBad}]
  \cup [ServiceName : {"Netflix"}, Price : {-5}, UserID : {11},
        StartDate : {T0725}, EndDate : {<<>>}]

IdRequests == [ID : IdTexts]

UpdateRequests ==
  [ID : IdTexts \ {BadIdText}, ServiceName : {""}, Price : {0},
   StartDate : {<<>>, T0925}, EndDate : {T0725, T1025, TBad}]
  \cup [ID : IdTexts \ {BadIdText}, ServiceName : {"Hulu"}, Price : {-1},
        StartDate : {TBad}, EndDate : {<<>>, T1025}]
  \cup [ID : IdTexts \ {BadIdText}, ServiceName : {"", "Hulu"}, Price : {0, 700},
        StartDate : {<<>>, T0925}, EndDate : {<<>>}]
  \cup [ID : IdTexts \ {BadIdText}, ServiceName : {""}, Price : {-1},
        StartDate : {<<>>}, EndDate : {<<>>}]
  \cup [ID : {BadIdText}, ServiceName : {"Hulu"}, Price : {700},
        StartDate : {<<>>}, EndDate : {<<>>}]

ListRequests ==
  [UserID : {<<>>, IdText(11), BadIdText}, ServiceName : {"", "Netflix"}]

AggregateRequests ==
  [StartDate : {T0725, T0925, T1025}, EndDate : {T0725, T0925},
   UserID : {Nil}, ServiceName : {Nil}]
  \cup [StartDate : {T0925}, EndDate : {T0925},
        UserID : {Nil, Ptr(11)}, ServiceName : {Nil, Ptr("Spotify")}]
  \cup [StartDate : {T0725, TBad}, EndDate : {TBad, <<>>},
        UserID : {Nil}, ServiceName : {Nil}]

\* the requests during which the gateway is seen to fail
CreateOutages == {q \in CreateRequests : q.EndDate # TBad}

IdOutages == IdRequests

UpdateOutages ==
  {q \in UpdateRequests : q.ServiceName = "Hulu" /\ q.Price = 700 /\ q.StartDate = <<>>}

ListOutages == {q \in ListRequests : q.ServiceName = ""}

AggregateOutages == {q \in AggregateRequests : q.StartDate = T0925 /\ q.EndDate = T0925}

\* a request arrives and its handler runs
Request ==
  /\ resp = NoResponse
  /\ served < MaxRequests
  /\ \/ \E q \in CreateRequests : Create(q, FALSE)
     \/ \E q \in CreateOutages : Create(q, TRUE)
     \/ \E q \in IdRequests : GetByID(q, FALSE)
     \/ \E q \in IdOutages : GetByID(q, TRUE)
     \/ \E c \in Clients, q \in UpdateRequests : UpdateLoad(c, q, FALSE)
     \/ \E c \in Clients, q \in UpdateOutages : UpdateLoad(c, q, TRUE)
     \/ \E q \in IdRequests : Delete(q, FALSE)
     \/ \E q \in IdOutages : Delete(q, TRUE)
     \/ \E q \in ListRequests : List(q, FALSE)
     \/ \E q \in ListOutages : List(q, TRUE)
     \/ \E q \in AggregateRequests : Aggregate(q, FALSE)
     \/ \E q \in AggregateOutages : Aggregate(q, TRUE)

\* a PUT between its two store calls goes on
Resume ==
  /\ resp = NoResponse
  /\ \E c \in Clients, e \in BOOLEAN : UpdateSave(c, e)

Next == Request \/ Resume \/ Respond

Spec == Init /\ [][Next]_vars

(***************************************************************************)
(* Properties                                                              *)
(***************************************************************************)
\* the identifier a request names in its path
ReqID(q) == uuidParse(q.ID).id

\* the user a List request names in its query
ReqUser(q) == uuidParse(q.UserID).id

Parses(dateStr) == parseMonthYear(dateStr).err = "nil"

\* months since year 0 of an instant, and of a month-year text
MonthOf(t) == t.year * 12 + t.month

MonthNum(dateStr) == MonthOf(parseMonthYear(dateStr).t)

FirstInstant(dateStr) ==
  LET t == parseMonthYear(dateStr).t
  IN [year |-> t.year, month |-> t.month, day |-> 1, hour |-> 0, min |-> 0, sec |-> 0]

LastInstant(dateStr) ==
  LET t == parseMonthYear(dateStr).t
  IN [year |-> t.year, month |-> t.month, day |-> DaysIn(t.year, t.month),
      hour |-> 23, min |-> 59, sec |-> 59]

\* client c's PUT goes from its first store call to waiting for the second
Loaded(c) == upd[c] = Nil /\ upd'[c] # Nil

\* client c's PUT makes its second store call and answers
Saved(c) == upd[c] # Nil /\ upd'[c] = Nil

\* C1: every stored subscription whose end_date is set has
\* end_date >= start_date, in every state the requests can reach, whatever
\* their interleaving.
C1_EndNotBeforeStart ==
  \A i \in DOMAIN store :
    store[i].EndDate # Nil => ~Before(store[i].EndDate[1], store[i].StartDate)

\* an Update that changed both dates has been saved next to another PUT
\* still in flight
C1_Witness ==
  /\ resp.op = "Update" /\ resp.status = 200
  /\ resp.req.StartDate # <<>> /\ resp.req.EndDate # <<>>
  /\ ReqID(resp.req) \in DOMAIN store
  /\ store[ReqID(resp.req)].EndDate # Nil
  /\ \E c \in Clients : upd[c] # Nil

\* C2: a row that has been inserted and deleted is in no later state of the
\* store (issued holds the keys of the rows inserted so far, so a key of
\* issued that is not in the store is the key of a deleted row).
C2_DeletedStaysDeleted ==
  [][\A i \in issued : i \notin DOMAIN store => i \notin DOMAIN store']_vars

\* C3: the second store call of a PUT is never refused because another PUT
\* wrote the row in between, and it leaves the row equal, field for field,
\* to the entity this PUT wrote: the row is what the last writer wrote.
C3_LastWriterWins ==
  [][\A c \in Clients :
       (Saved(c) /\ resp'.err # "PersistenceError") =>
         /\ resp'.status = 200
         /\ resp'.sub = Ptr(upd[c][1].sub)
         /\ upd[c][1].sub.ID \in DOMAIN store'
         /\ store'[upd[c][1].sub.ID] = upd[c][1].sub]_vars

\* two PUTs of one row loaded it, the first has saved and answered, and the
\* second is about to save a different entity
C3_Witness ==
  /\ resp.op = "Update" /\ resp.status = 200
  /\ \E c \in Clients :
       /\ upd[c] # Nil
       /\ upd[c][1].sub.ID = resp.sub[1].ID
       /\ upd[c][1].sub # resp.sub[1]
       /\ store[resp.sub[1].ID] = resp.sub[1]

\* C4: an Update whose end-date text is empty and whose other fields are
\* valid is not refused, and the row it saves has no end date, whatever end
\* date the row had and whatever the request's other fields are.
C4_EmptyEndClears ==
  [][/\ \A c \in Clients :
          (Saved(c) /\ upd[c][1].req.EndDate = <<>> /\ resp'.status = 200) =>
            store'[ReqID(upd[c][1].req)].EndDate = Nil
     /\ ~(/\ resp'.op = "Update" /\ upd' = upd
          /\ resp'.req.EndDate = <<>>
          /\ ReqID(resp'.req) \in DOMAIN store
          /\ (resp'.req.StartDate = <<>> \/ Parses(resp'.req.StartDate))
          /\ resp'.err # "PersistenceError")]_vars

\* an Update with no end_date and no price has been saved on a row created
\* at price 1000: every such row was created with an end date
C4_Witness ==
  /\ resp.op = "Update" /\ resp.status = 200
  /\ resp.req.EndDate = <<>> /\ resp.req.Price = 0
  /\ resp.sub[1].Price = 1000
  /\ store[ReqID(resp.req)].EndDate = Nil

\* C5: the entity an Update saves has the service_name it loaded when the
\* supplied name is empty, the price it loaded when the supplied price is
\* zero or negative, the start_date it loaded when the supplied start-date
\* text is empty, and the supplied value otherwise; the row is saved with
\* these three values.
C5_PartialUpdate ==
  [][\A c \in Clients :
       /\ Loaded(c) =>
            LET q == upd'[c][1].req
                new == upd'[c][1].sub
                old == store[ReqID(q)]
            IN /\ new.ServiceName = IF q.ServiceName = "" THEN old.ServiceName
                                    ELSE q.ServiceName
               /\ new.Price = IF q.Price <= 0 THEN old.Price ELSE q.Price
               /\ new.StartDate = IF q.StartDate = <<>> THEN old.StartDate
                                  ELSE FirstInstant(q.StartDate)
       /\ (Saved(c) /\ resp'.status = 200) =>
            LET new == upd[c][1].sub
                row == store'[ReqID(upd[c][1].req)]
            IN /\ row.ServiceName = new.ServiceName
               /\ row.Price = new.Price
               /\ row.StartDate = new.StartDate]_vars

\* an Update with a price and a start date but no name has been saved
C5_Witness ==
  /\ resp.op = "Update" /\ resp.status = 200
  /\ resp.req.ServiceName = "" /\ resp.req.Price = 700 /\ resp.req.StartDate = T0925
  /\ LET row == store[ReqID(resp.req)]
     IN /\ row.ServiceName \in ServiceNames
        /\ row.Price = 700
        /\ row.StartDate = FirstInstant(T0925)

\* the start month an Update request q ends up with on the row it loads
EffectiveStart(q) ==
  IF q.StartDate # <<>> THEN MonthNum(q.StartDate)
  ELSE MonthOf(store[ReqID(q)].StartDate)

\* an Update request for a stored row whose end-date text is a month and
\* whose start-date text is empty or a month
DatedUpdate(q) ==
  /\ ReqID(q) \in DOMAIN store
  /\ q.EndDate # <<>> /\ Parses(q.EndDate)
  /\ (q.StartDate = <<>> \/ Parses(q.StartDate))

\* C6: an Update with a parseable end-date text fails with InvalidDateRange
\* exactly when that month precedes the start month the entity has after
\* the request's own start-date change; otherwise the row is saved with the
\* supplied month as its end date.
C6_UpdateRange ==
  [][/\ (/\ resp'.op = "Update" /\ upd' = upd
         /\ DatedUpdate(resp'.req)
         /\ resp'.err # "PersistenceError") =>
          /\ resp'.err = "InvalidDateRange"
          /\ MonthNum(resp'.req.EndDate) < EffectiveStart(resp'.req)
     /\ \A c \in Clients :
          /\ (Loaded(c) /\ DatedUpdate(upd'[c][1].req)) =>
               /\ MonthNum(upd'[c][1].req.EndDate) >= EffectiveStart(upd'[c][1].req)
               /\ upd'[c][1].sub.EndDate = Ptr(FirstInstant(upd'[c][1].req.EndDate))
          /\ (Saved(c) /\ upd[c][1].req.EndDate # <<>> /\ resp'.status = 200) =>
               store'[ReqID(upd[c][1].req)].EndDate
                 = Ptr(FirstInstant(upd[c][1].req.EndDate))]_vars

\* an Update is refused for an end month that does not precede the start
\* month of the row, only the start month the same request supplies
C6_Witness ==
  /\ resp.op = "Update" /\ resp.err = "InvalidDateRange"
  /\ resp.req.StartDate # <<>>
  /\ MonthOf(store[ReqID(resp.req)].StartDate) <= MonthNum(resp.req.EndDate)

\* C7: Create fails with InvalidDateRange and stores nothing when the end
\* month precedes the start month; otherwise (end month equal or later, or
\* no end-date text) it answers 201 and the store gains exactly one row,
\* under a new key, holding the request's fields.
C7_CreateRange ==
  [][(/\ resp'.op = "Create"
      /\ bindCreate(resp'.req)
      /\ Parses(resp'.req.StartDate)
      /\ (resp'.req.EndDate = <<>> \/ Parses(resp'.req.EndDate))
      /\ resp'.err # "PersistenceError") =>
       LET q == resp'.req
       IN IF q.EndDate # <<>> /\ MonthNum(q.EndDate) < MonthNum(q.StartDate)
          THEN /\ resp'.err = "InvalidDateRange" /\ resp'.status = 400
               /\ store' = store
          ELSE /\ resp'.status = 201
               /\ \E i \in DOMAIN store' \ DOMAIN store :
                    /\ DOMAIN store' = DOMAIN store \cup {i}
                    /\ \A j \in DOMAIN store : store'[j] = store[j]
                    /\ store'[i] = Subscription(i, q.ServiceName, q.Price, q.UserID,
                                     FirstInstant(q.StartDate),
                                     IF q.EndDate = <<>> THEN Nil
                                     ELSE Ptr(FirstInstant(q.EndDate)))
                    /\ resp'.sub = Ptr(store'[i])]_vars

\* a subscription that ends in the month it starts has been created
C7_Witness ==
  /\ resp.op = "Create" /\ resp.status = 201
  /\ resp.req.EndDate = resp.req.StartDate
  /\ resp.sub[1].ID \in DOMAIN store
  /\ store[resp.sub[1].ID].EndDate = Ptr(store[resp.sub[1].ID].StartDate)

\* the rows Aggregate request q is to sum
Overlapping(q) ==
  {r \in Rows(store) :
     /\ TimeLeq(r.StartDate, LastInstant(q.EndDate))
     /\ (r.EndDate = Nil \/ TimeLeq(FirstInstant(q.StartDate), r.EndDate[1]))
     /\ (q.UserID # Nil => r.UserID = q.UserID[1])
     /\ (q.ServiceName # Nil => r.ServiceName = q.ServiceName[1])}

\* C8: for every store and every pair of window months, Aggregate answers
\* with the sum of price over exactly the rows with start_date <= last
\* instant of the end month and (end_date >= first instant of the start
\* month or no end_date), among those matching the user_id and service_name
\* filters that are supplied; 0 when no row matches.
C8_AggregateSum ==
  (/\ resp.op = "Aggregate"
   /\ bindAggregate(resp.req)
   /\ Parses(resp.req.StartDate) /\ Parses(resp.req.EndDate)
   /\ resp.err # "PersistenceError") =>
    /\ resp.status = 200
    /\ resp.total = SumPrice(Overlapping(resp.req))

\* Netflix 1000 from 07-2025 to 10-2025 and open-ended Spotify 500 from
\* 09-2025 give 1500 for the window 09-2025..09-2025
C8_Witness ==
  /\ resp.op = "Aggregate" /\ resp.status = 200
  /\ resp.req.StartDate = T0925 /\ resp.req.EndDate = T0925
  /\ resp.req.UserID = Nil /\ resp.req.ServiceName = Nil
  /\ resp.total = 1500
  /\ \E i, j \in DOMAIN store :
       /\ store[i].ServiceName = "Netflix" /\ store[i].Price = 1000
       /\ store[i].StartDate = FirstInstant(T0725)
       /\ store[i].EndDate = Ptr(FirstInstant(T1025))
       /\ store[j].ServiceName = "Spotify" /\ store[j].Price = 500
       /\ store[j].StartDate = FirstInstant(T0925)
       /\ store[j].EndDate = Nil

\* C9: GetByID and Delete on a well-formed id that is not in the store
\* answer NotFound (404) and leave the store as it is.
C9_AbsentIsNotFound ==
  [][(/\ resp'.op \in {"GetByID", "Delete"}
      /\ uuidParse(resp'.req.ID).err = "nil"
      /\ ReqID(resp'.req) \notin DOMAIN store
      /\ resp'.err # "PersistenceError") =>
       /\ resp'.status = 404 /\ resp'.err = "NotFound"
       /\ store' = store]_vars

\* C10: GetByID on an id in the store answers 200 with the stored row and
\* leaves the store as it is; and a row is only ever written by a successful
\* Create or Update, whose response carries the row as written: what GetByID
\* returns is what the last of them wrote.
C10_GetReturnsStored ==
  [][/\ resp'.op = "GetByID" =>
          /\ store' = store
          /\ (/\ uuidParse(resp'.req.ID).err = "nil"
              /\ ReqID(resp'.req) \in DOMAIN store
              /\ resp'.err # "PersistenceError") =>
               /\ resp'.status = 200
               /\ resp'.sub = Ptr(store[ReqID(resp'.req)])
     /\ \A i \in DOMAIN store' :
          (i \notin DOMAIN store \/ store'[i] # store[i]) =>
            /\ resp'.op \in {"Create", "Update"}
            /\ resp'.status \in {200, 201}
            /\ resp'.sub = Ptr(store'[i])]_vars

\* GetByID has returned a row that an Update renamed
C10_Witness ==
  /\ resp.op = "GetByID" /\ resp.status = 200
  /\ resp.sub[1].ServiceName = "Hulu"
  /\ resp.sub[1] = store[ReqID(resp.req)]

\* C11: every stored subscription has price > 0, in every state the
\* requests can reach.
C11_PricePositive == \A i \in DOMAIN store : store[i].Price > 0

\* an Update carrying a negative price has been saved on a row, which
\* keeps the price it was created with
C11_Witness ==
  /\ resp.op = "Update" /\ resp.status = 200 /\ resp.req.Price < 0
  /\ ReqID(resp.req) \in DOMAIN store
  /\ store[ReqID(resp.req)].Price \in {500, 1000}
\* C12: a successful Create adds one row under a key that no row inserted
\* so far has had, and the row holds that key as its id; a successful
\* Update writes the row of the id its request names, with that id, and no
\* other row; every row is stored under its own id.
C12_IdAssignedOnce ==
  [][/\ (resp'.op = "Create" /\ resp'.status = 201) =>
          LET i == resp'.sub[1].ID
          IN /\ i \notin issued /\ i \notin DOMAIN store
             /\ DOMAIN store' = DOMAIN store \cup {i}
             /\ \A j \in DOMAIN store : store'[j] = store[j]
     /\ \A c \in Clients :
          (Saved(c) /\ resp'.status = 200) =>
            LET i == ReqID(upd[c][1].req)
            IN /\ upd[c][1].sub.ID = i
               /\ DOMAIN store' = DOMAIN store \cup {i}
               /\ \A j \in DOMAIN store : j # i => store'[j] = store[j]
     /\ \A i \in DOMAIN store' : store'[i].ID = i]_vars

\* a second Create with the body of the first has been answered, and the
\* store holds two rows that differ in their id only
C12_Witness ==
  /\ resp.op = "Create" /\ resp.status = 201
  /\ \E i, j \in DOMAIN store :
       /\ i # j
       /\ store[i] = resp.sub[1]
       /\ store[j] = [store[i] EXCEPT !.ID = j]
\* the rows List request q is to return: those of the user it names, if
\* any, with the service name it gives, if any
Listed(q) ==
  {r \in Rows(store) :
     /\ (q.UserID # <<>> => r.UserID = ReqUser(q))
     /\ (q.ServiceName # "" => r.ServiceName = q.ServiceName)}

\* C13: List without user_id and with an empty service_name returns every
\* row; with a service_name exactly the rows of that name; with a user_id
\* exactly the rows of that user; with both exactly the rows of both; and
\* List leaves the store as it is.
C13_ListFilters ==
  [][resp'.op = "List" =>
       /\ store' = store
       /\ (/\ (resp'.req.UserID = <<>> \/ uuidParse(resp'.req.UserID).err = "nil")
           /\ resp'.err # "PersistenceError") =>
            /\ resp'.status = 200
            /\ resp'.subs = Listed(resp'.req)]_vars

\* List by user and service name has returned a row and left out a row of
\* the same user under another service name
C13_Witness ==
  /\ resp.op = "List" /\ resp.status = 200
  /\ resp.req.UserID # <<>> /\ resp.req.ServiceName # ""
  /\ resp.subs # {}
  /\ \E r \in Rows(store) \ resp.subs : r.UserID = ReqUser(resp.req)
\* C14: GET, PUT and DELETE /subscriptions/:id with a well-formed id that
\* is not in the store are each answered 404.
C14_AbsentIs404 ==
  [][(/\ resp'.op \in {"GetByID", "Update", "Delete"}
      /\ upd' = upd
      /\ uuidParse(resp'.req.ID).err = "nil"
      /\ ReqID(resp'.req) \notin DOMAIN store
      /\ resp'.err # "PersistenceError") =>
       resp'.status = 404]_vars

\* C15: a request refused with InvalidDate or InvalidDateRange is answered
\* 400, on POST /subscriptions, PUT /subscriptions/:id and
\* POST /subscriptions/aggregate.
C15_ValidationIs400 ==
  (/\ resp.op \in {"Create", "Update", "Aggregate"}
   /\ resp.err \in {"InvalidDate", "InvalidDateRange"}) =>
    resp.status = 400

\* C16: a request during which the gateway fails is answered 500, on every
\* endpoint.
C16_GatewayFailureIs500 == resp.err = "PersistenceError" => resp.status = 500
\* C17: GET, PUT and DELETE /subscriptions/:id with an id that is not a
\* well-formed identifier are answered 400 for the id, whether or not the
\* gateway is failing at the time: neither the service nor the gateway is
\* called, the store is as it was and no write is left pending.
C17_MalformedIdIs400 ==
  [][(/\ resp'.op \in {"GetByID", "Update", "Delete"}
      /\ uuidParse(resp'.req.ID).err # "nil") =>
       /\ resp'.status = 400 /\ resp'.err = "BadID"
       /\ store' = store /\ upd' = upd]_vars

\* a DELETE with a malformed id has been refused with a row stored
C17_Witness ==
  /\ resp.op = "Delete" /\ resp.status = 400
  /\ resp.req.ID = BadIdText
  /\ DOMAIN store # {}
\* C18: a Create, Update, Delete or Aggregate request answered with an
\* error (InvalidDate, InvalidDateRange, NotFound or a gateway failure)
\* leaves the store as it was, and an Update refused before its write
\* leaves no write pending: the start date, name or price of a refused
\* Update are stored neither then nor later.
C18_ErrorLeavesStore ==
  [][(/\ resp'.op \in {"Create", "Update", "Delete", "Aggregate"}
      /\ resp'.err \in {"InvalidDate", "InvalidDateRange", "NotFound",
                        "PersistenceError"}) =>
       /\ store' = store
       /\ \A c \in Clients : upd'[c] # Nil => upd'[c] = upd[c]]_vars

\* an Update with a new start date and an end-date text that is no month
\* or a month before it has been refused, and the row has the start date
\* it had
C18_Witness ==
  /\ resp.op = "Update" /\ resp.err \in {"InvalidDate", "InvalidDateRange"}
  /\ resp.req.StartDate = T0925 /\ resp.req.EndDate # <<>>
  /\ ReqID(resp.req) \in DOMAIN store
  /\ store[ReqID(resp.req)].StartDate # FirstInstant(T0925)
\* C19: an Aggregate whose two texts are months, the start month later
\* than the end month, is not refused: it answers 200 with the sum of price
\* over the rows with start_date <= last instant of the end month and
\* (end_date >= first instant of the start month or no end_date).
C19_NoWindowOrderCheck ==
  (/\ resp.op = "Aggregate"
   /\ Parses(resp.req.StartDate) /\ Parses(resp.req.EndDate)
   /\ MonthNum(resp.req.StartDate) > MonthNum(resp.req.EndDate)
   /\ resp.err # "PersistenceError") =>
    /\ resp.status = 200 /\ resp.err = "nil"
    /\ resp.total = SumPrice({r \in Rows(store) :
                       /\ TimeLeq(r.StartDate, LastInstant(resp.req.EndDate))
                       /\ \/ r.EndDate = Nil
                          \/ TimeLeq(FirstInstant(resp.req.StartDate), r.EndDate[1])
                       /\ (resp.req.UserID # Nil => r.UserID = resp.req.UserID[1])
                       /\ (resp.req.ServiceName # Nil
                             => r.ServiceName = resp.req.ServiceName[1])})

\* the window 10-2025..07-2025 has been summed over a row that runs from
\* 07-2025 to 10-2025, which it counts, and a row it does not count
C19_Witness ==
  /\ resp.op = "Aggregate" /\ resp.status = 200
  /\ resp.req.StartDate = T1025 /\ resp.req.EndDate = T0725
  /\ resp.total = 1000
  /\ Cardinality(DOMAIN store) = 2
\* an instant that is the first day of a month at 00:00:00
FirstOfMonth(t) == t.day = 1 /\ t.hour = 0 /\ t.min = 0 /\ t.sec = 0

\* C20: the start_date of every stored row, and its end_date when it has
\* one, is the first day of a month at 00:00:00, in every state the
\* requests can reach.
C20_DatesFirstOfMonth ==
  \A i \in DOMAIN store :
    /\ FirstOfMonth(store[i].StartDate)
    /\ store[i].EndDate # Nil => FirstOfMonth(store[i].EndDate[1])

\* an Update has written both dates of a row that a Create had written
C20_Witness ==
  /\ resp.op = "Update" /\ resp.status = 200
  /\ resp.req.StartDate = T0925 /\ resp.req.EndDate = T1025
  /\ ReqID(resp.req) \in DOMAIN store
  /\ MonthOf(store[ReqID(resp.req)].StartDate) = MonthNum(T0925)
  /\ store[ReqID(resp.req)].EndDate # Nil
  /\ MonthOf(store[ReqID(resp.req)].EndDate[1]) = MonthNum(T1025)
\* C21: GET /subscriptions with a user_id that is given and is not a
\* well-formed identifier is not refused: it answers 200 with the rows of
\* every user, narrowed by service_name only when one is given.
C21_BadUserIsNoFilter ==
  [][(/\ resp'.op = "List"
      /\ resp'.req.UserID # <<>>
      /\ uuidParse(resp'.req.UserID).err # "nil"
      /\ resp'.err # "PersistenceError") =>
       /\ resp'.status = 200
       /\ resp'.subs = {r \in Rows(store) :
                          resp'.req.ServiceName # ""
                            => r.ServiceName = resp'.req.ServiceName}]_vars

\* a List with a malformed user_id has returned the rows of two users
C21_Witness ==
  /\ resp.op = "List" /\ resp.status = 200
  /\ resp.req.UserID = BadIdText
  /\ \E r1, r2 \in resp.subs : r1.UserID # r2.UserID
\* C22: a successful Update leaves the user_id of the row it writes as it
\* was, in the entity it loads and in the row it saves, and leaves every
\* other row as it was; a successful Create leaves every row stored before
\* as it was; a successful Delete removes the row of its id and no other.
C22_Frame ==
  [][/\ \A c \in Clients :
          /\ Loaded(c) =>
               upd'[c][1].sub.UserID = store[ReqID(upd'[c][1].req)].UserID
          /\ (Saved(c) /\ resp'.status = 200) =>
               LET i == ReqID(upd[c][1].req)
               IN /\ i \in DOMAIN store => store'[i].UserID = store[i].UserID
                  /\ store'[i].UserID = upd[c][1].sub.UserID
                  /\ \A j \in DOMAIN store \ {i} :
                       j \in DOMAIN store' /\ store'[j] = store[j]
                  /\ DOMAIN store' \subseteq DOMAIN store \cup {i}
     /\ (resp'.op = "Create" /\ resp'.status = 201) =>
          \A j \in DOMAIN store : j \in DOMAIN store' /\ store'[j] = store[j]
     /\ (resp'.op = "Delete" /\ resp'.status = 204) =>
          /\ DOMAIN store' = DOMAIN store \ {ReqID(resp'.req)}
          /\ \A j \in DOMAIN store' : store'[j] = store[j]]_vars

\* an Update that renames has been saved on a row next to the row of
\* another user, and each row has the user it had
C22_Witness ==
  /\ resp.op = "Update" /\ resp.status = 200
  /\ resp.req.ServiceName = "Hulu"
  /\ ReqID(resp.req) \in DOMAIN store
  /\ \E j \in DOMAIN store :
       /\ store[j].UserID # store[ReqID(resp.req)].UserID
       /\ store[j].ServiceName = "Spotify"
====
